---- MODULE Spec2Model ----
(***************************************************************************)
(* Book catalog service of UnangPahina: the Express router of              *)
(* backend/_booksMicroservice/src/routes/bookRoutes.js over a Mongoose     *)
(* Book collection, with its best-effort event publication.                *)
(*                                                                         *)
(* Numbers are counted in hundredths (9.99 is 999, 2.5 is 250, 5 is 500).  *)
(* Strings are sequences of one-character strings.                         *)
(***************************************************************************)
EXTENDS Integers, Sequences, FiniteSets, TLC

\* ------------------------------------------------------------------ bounds
\* Number of identifiers the run may generate (creates that reach the store).
MaxBooks == 2
\* The requests the frontend has in flight at a time.
MaxPending == 2

\* ------------------------------------------------------------- JSON values
Undef == [t |-> "undef"]
Null == [t |-> "null"]
Num(n) == [t |-> "num", v |-> n]
Str(s) == [t |-> "str", s |-> s]
NaN == [t |-> "nan"]

Digits == {"0", "1", "2", "3", "4", "5", "6", "7", "8", "9"}
DigitVal == [c \in Digits |-> CASE c = "0" -> 0 [] c = "1" -> 1 [] c = "2" -> 2
                                [] c = "3" -> 3 [] c = "4" -> 4 [] c = "5" -> 5
                                [] c = "6" -> 6 [] c = "7" -> 7 [] c = "8" -> 8
                                [] OTHER -> 9]

\* Leading and trailing white space is dropped by the string-to-number
\* conversion.
RECURSIVE TrimLeft(_)
TrimLeft(s) == IF s # <<>> /\ Head(s) = " " THEN TrimLeft(Tail(s)) ELSE s

RECURSIVE TrimRight(_)
TrimRight(s) ==
    IF s # <<>> /\ s[Len(s)] = " " THEN TrimRight(SubSeq(s, 1, Len(s) - 1)) ELSE s

AllDigits(s) == \A i \in 1..Len(s) : s[i] \in Digits

RECURSIVE DigitsValue(_)
DigitsValue(s) ==
    IF s = <<>> THEN 0
    ELSE 10 * DigitsValue(SubSeq(s, 1, Len(s) - 1)) + DigitVal[s[Len(s)]]

DotAt(s) == IF \E i \in 1..Len(s) : s[i] = "."
            THEN CHOOSE i \in 1..Len(s) : s[i] = "." /\ \A j \in 1..(i - 1) : s[j] # "."
            ELSE 0

\* An unsigned decimal literal: digits, optionally a point and at most two
\* more digits (the resolution of the model), at least one digit in all.
UnsignedValue(s) ==
    LET d == DotAt(s)
        ip == IF d = 0 THEN s ELSE SubSeq(s, 1, d - 1)
        fp == IF d = 0 THEN <<>> ELSE SubSeq(s, d + 1, Len(s))
    IN IF AllDigits(ip) /\ AllDigits(fp) /\ Len(ip) + Len(fp) > 0 /\ Len(fp) <= 2
       THEN Num(100 * DigitsValue(ip)
                + (IF Len(fp) = 1 THEN 10 * DigitsValue(fp) ELSE DigitsValue(fp)))
       ELSE NaN

\* Number(string): the empty (or blank) string is 0, a decimal literal is
\* its value, anything else is NaN.
StringToNumber(s0) ==
    LET s == TrimRight(TrimLeft(s0))
    IN IF s = <<>> THEN Num(0)
       ELSE IF Head(s) = "-"
            THEN LET u == UnsignedValue(Tail(s))
                 IN IF u = NaN THEN NaN ELSE Num(0 - u.v)
            ELSE IF Head(s) = "+" THEN UnsignedValue(Tail(s))
            ELSE UnsignedValue(s)

\* Number(x) of JavaScript.
ToNumber(x) ==
    CASE x.t = "num" -> x
      [] x.t = "str" -> StringToNumber(x.s)
      [] x.t = "null" -> Num(0)
      [] x.t = "bool" -> IF x.b THEN Num(100) ELSE Num(0)
      [] OTHER -> NaN

isNaN(x) == ToNumber(x) = NaN

\* !x of JavaScript for the values a text field can carry.
Falsy(x) ==
    \/ x.t \in {"undef", "null", "nan"}
    \/ x.t = "str" /\ x.s = <<>>
    \/ x.t = "num" /\ x.v = 0
    \/ x.t = "bool" /\ ~x.b

\* ------------------------------------------------------------------- texts
Lower(c) == CASE c = "A" -> "a" [] c = "B" -> "b" [] c = "C" -> "c" [] OTHER -> c

\* A pattern the regular-expression engine refuses: an unclosed group.
BadPattern(p) == \E i \in 1..Len(p) : p[i] = "("

\* One pattern character against one text character, option i: the point
\* matches any character, any other character matches itself in either case.
CharMatches(pc, c) == pc = "." \/ Lower(pc) = Lower(c)

\* { field: { $regex: q, $options: 'i' } }: the pattern matches somewhere in
\* the field.
RegexMatch(p, s) ==
    \E i \in 1..(Len(s) - Len(p) + 1) :
        \A j \in 1..Len(p) : CharMatches(p[j], s[i + j - 1])

\* The $or of the four fields.
SearchFilter(q, b) ==
    \/ RegexMatch(q, b.title)
    \/ RegexMatch(q, b.author)
    \/ RegexMatch(q, b.description)
    \/ RegexMatch(q, b.category)

\* ------------------------------------------------------------- identifiers
\* A path parameter: its length, whether all its characters are hexadecimal
\* digits, and (for a 24-digit one) which identifier it spells.
\* Faulty variant: the length of the identifier is not looked at.
isValidAnyLength(id) == id.hex

\* mongoose.Types.ObjectId.isValid on a string: 24 hexadecimal digits.
isValid(id) == id.len = 24 /\ id.hex

\* ------------------------------------------------------------------- store
\* The collection is a function from the identifiers of the stored books to
\* the documents. A cursor returns the documents in identifier order.
RECURSIVE Docs(_, _)
Docs(st, ids) ==
    IF ids = {} THEN <<>>
    ELSE LET m == CHOOSE i \in ids : \A j \in ids : i <= j
         IN <<st[m]>> \o Docs(st, ids \ {m})

\* Book.find(filter)
Find(st, q) == Docs(st, {i \in DOMAIN st : SearchFilter(q, st[i])})

\* Book.find()
FindAll(st) == Docs(st, DOMAIN st)

\* Book.findById(id): the document, or null.
FindById(st, id) == IF id.n \in DOMAIN st THEN st[id.n] ELSE Null

\* document.save() and findByIdAndDelete on the collection.
Save(st, doc) == [i \in DOMAIN st \cup {doc._id} |-> IF i = doc._id THEN doc ELSE st[i]]
Remove(st, n) == [i \in DOMAIN st \ {n} |-> st[i]]

\* The schema does not turn optimistic concurrency on.
OptimisticConcurrency == FALSE

\* Faulty variant: the save is rejected when the stored document is no longer
\* the one that was fetched.
SaveDocumentVersioned(st, snap, doc) ==
    IF doc._id \notin DOMAIN st \/ st[doc._id] # snap
    THEN [ok |-> FALSE, store |-> st]
    ELSE [ok |-> TRUE, store |-> Save(st, doc)]

\* document.save() of a document fetched as snap and changed in memory to doc,
\* on the collection as it is at the time of the save: the paths whose value
\* changed are set on the stored document; the save is rejected when the
\* document is no longer stored.
SaveDocument(st, snap, doc) ==
    IF \/ doc._id \notin DOMAIN st
       \/ OptimisticConcurrency /\ st[doc._id] # snap
    THEN [ok |-> FALSE, store |-> st]
    ELSE [ok |-> TRUE,
          store |-> [i \in DOMAIN st |->
                       IF i # doc._id THEN st[i]
                       ELSE [f \in DOMAIN doc |->
                               IF doc[f] # snap[f] THEN doc[f] ELSE st[i][f]]]]

\* The stock of a document built without one.
DefaultStock == Num(0)

\* new Book(body): the schema's fields of the body under a fresh identifier.
NewBook(body, nid) ==
    [_id |-> nid, title |-> body.title.s, author |-> body.author.s,
     description |-> body.description.s, category |-> body.category.s,
     price |-> body.price,
     stock |-> IF body.stock = Undef THEN DefaultStock ELSE body.stock]

\* Object.assign(book, body): every field the body has replaces the book's.
Assign(book, body) ==
    [_id |-> book._id,
     title |-> IF body.title = Undef THEN book.title ELSE body.title.s,
     author |-> IF body.author = Undef THEN book.author ELSE body.author.s,
     description |-> IF body.description = Undef THEN book.description
                     ELSE body.description.s,
     category |-> IF body.category = Undef THEN book.category ELSE body.category.s,
     price |-> IF body.price = Undef THEN book.price ELSE body.price,
     stock |-> IF body.stock = Undef THEN book.stock ELSE body.stock]

\* --------------------------------------------------------------- messaging
\* config.ROUTING_KEYS, each key under the name the routes use for it.
ROUTING_KEYS ==
    [BOOK_CREATED |-> "BOOK_CREATED", BOOK_UPDATED |-> "BOOK_UPDATED",
     STOCK_UPDATED |-> "STOCK_UPDATED"]

\* Faulty variant: a publish that throws is attempted a second time.
PublishWithRetry(chan, key, payload) ==
    IF chan = "absent" THEN <<>>
    ELSE IF chan = "ok"
    THEN <<[op |-> "publish", key |-> key, payload |-> payload, ok |-> TRUE]>>
    ELSE <<[op |-> "publish", key |-> key, payload |-> payload, ok |-> FALSE],
           [op |-> "publish", key |-> key, payload |-> payload, ok |-> FALSE]>>

\* if (global.channel) { try { publish } catch { log } }: what the request
\* does on the channel, as trace entries. chan is "absent", "ok" or "throws".
Publish(chan, key, payload) ==
    IF chan = "absent" THEN <<>>
    ELSE <<[op |-> "publish", key |-> key, payload |-> payload, ok |-> chan = "ok"]>>

\* --------------------------------------------------------------- responses
Msg(m) == [message |-> m]
StoreCall(name, ok) == [op |-> name, ok |-> ok]

\* What a handler leaves: the response, the store, the next fresh identifier
\* and the trace of its store calls and publish attempts, closed by the
\* response.
Result(status, body, st, nid, trace) ==
    [status |-> status, body |-> body, store |-> st, nextId |-> nid,
     trace |-> trace \o <<[op |-> "respond", status |-> status]>>]

\* Faulty variant: the sign is not tested.
NotANumberOnly(x) == isNaN(x)

\* isNaN(Number(x)) || Number(x) < 0
NotNonNegative(x) == isNaN(x) \/ ToNumber(x).v < 0

\* Faulty variant: the fields are stored as submitted.
WithNumbersUnconverted(body) == body

\* "Ensure numeric fields are stored as numbers": the price and the stock the
\* body has are replaced by their Number().
WithNumbers(body) ==
    [body EXCEPT !.price = IF body.price # Undef THEN ToNumber(body.price) ELSE Undef,
                 !.stock = IF body.stock # Undef THEN ToNumber(body.stock) ELSE Undef]

\* ---------------------------------------------------------------- handlers
\* failAt = k makes the k-th store call of the request throw (0: none does).

\* router.get('/')
GetBooks(failAt, st, nid) ==
    IF failAt = 1
    THEN Result(500, Msg("store error"), st, nid, <<StoreCall("find", FALSE)>>)
    ELSE Result(200, FindAll(st), st, nid, <<StoreCall("find", TRUE)>>)

\* router.get('/search')
SearchBooks(q, failAt, st, nid) ==
    IF Falsy(q)
    THEN Result(400, Msg("Search query is required"), st, nid, <<>>)
    ELSE IF failAt = 1 \/ BadPattern(q.s)
    THEN Result(500, Msg("store error"), st, nid, <<StoreCall("find", FALSE)>>)
    ELSE Result(200, Find(st, q.s), st, nid, <<StoreCall("find", TRUE)>>)

\* router.get('/:id')
GetBook(id, failAt, st, nid) ==
    IF ~isValid(id)
    THEN Result(400, Msg("Invalid book ID format"), st, nid, <<>>)
    ELSE IF failAt = 1
    THEN Result(500, Msg("store error"), st, nid, <<StoreCall("findById", FALSE)>>)
    ELSE IF FindById(st, id) = Null
    THEN Result(404, Msg("Book not found"), st, nid, <<StoreCall("findById", TRUE)>>)
    ELSE Result(200, FindById(st, id), st, nid, <<StoreCall("findById", TRUE)>>)

\* router.post('/')
PostBook(body, chan, failAt, st, nid) ==
    IF \/ Falsy(body.title) \/ Falsy(body.author) \/ body.price = Undef
       \/ Falsy(body.description) \/ Falsy(body.category)
    THEN Result(400, Msg("Missing required fields"), st, nid, <<>>)
    ELSE IF NotNonNegative(body.price)
    THEN Result(400, Msg("Price must be a valid non-negative number"), st, nid, <<>>)
    ELSE IF body.stock # Undef /\ NotNonNegative(body.stock)
    THEN Result(400, Msg("Stock must be a valid non-negative number"), st, nid, <<>>)
    ELSE LET newBook == NewBook(WithNumbers(body), nid)
         IN IF failAt = 1
            THEN Result(400, Msg("store error"), st, nid, <<StoreCall("save", FALSE)>>)
            ELSE Result(201, newBook, Save(st, newBook), nid + 1,
                        <<StoreCall("save", TRUE)>>
                        \o Publish(chan, ROUTING_KEYS.BOOK_CREATED, newBook))

\* router.put('/:id')
PutBook(id, body, chan, failAt, st, nid) ==
    IF ~isValid(id)
    THEN Result(400, Msg("Invalid book ID format"), st, nid, <<>>)
    ELSE IF failAt = 1
    THEN Result(400, Msg("store error"), st, nid, <<StoreCall("findById", FALSE)>>)
    ELSE IF FindById(st, id) = Null
    THEN Result(404, Msg("Book not found"), st, nid, <<StoreCall("findById", TRUE)>>)
    ELSE IF body.price # Undef /\ NotNonNegative(body.price)
    THEN Result(400, Msg("Price must be a valid non-negative number"), st, nid,
                <<StoreCall("findById", TRUE)>>)
    ELSE IF body.stock # Undef /\ NotNonNegative(body.stock)
    THEN Result(400, Msg("Stock must be a valid non-negative number"), st, nid,
                <<StoreCall("findById", TRUE)>>)
    ELSE LET updatedBook == Assign(FindById(st, id), WithNumbers(body))
         IN IF failAt = 2
            THEN Result(400, Msg("store error"), st, nid,
                        <<StoreCall("findById", TRUE), StoreCall("save", FALSE)>>)
            ELSE Result(200, updatedBook, Save(st, updatedBook), nid,
                        <<StoreCall("findById", TRUE), StoreCall("save", TRUE)>>
                        \o Publish(chan, ROUTING_KEYS.BOOK_UPDATED, updatedBook))

\* Faulty variant: findById in place of findByIdAndDelete, the document stays.
DeleteBookKeepsDocument(id, chan, failAt, st, nid) ==
    IF ~isValid(id)
    THEN Result(400, Msg("Invalid book ID format"), st, nid, <<>>)
    ELSE IF failAt = 1
    THEN Result(500, Msg("store error"), st, nid, <<StoreCall("findById", FALSE)>>)
    ELSE IF FindById(st, id) = Null
    THEN Result(404, Msg("Book not found"), st, nid, <<StoreCall("findById", TRUE)>>)
    ELSE Result(200, Msg("Book deleted"), st, nid,
                <<StoreCall("findById", TRUE)>>
                \o Publish(chan, ROUTING_KEYS.BOOK_UPDATED,
                           [bookId |-> id.n, deleted |-> TRUE]))

\* Faulty variant: the publish is not in a try of its own, so that its throw
\* reaches the handler's catch.
DeleteBookPublishUncaught(id, chan, failAt, st, nid) ==
    IF ~isValid(id)
    THEN Result(400, Msg("Invalid book ID format"), st, nid, <<>>)
    ELSE IF failAt = 1
    THEN Result(500, Msg("store error"), st, nid,
                <<StoreCall("findByIdAndDelete", FALSE)>>)
    ELSE IF FindById(st, id) = Null
    THEN Result(404, Msg("Book not found"), st, nid,
                <<StoreCall("findByIdAndDelete", TRUE)>>)
    ELSE Result(IF chan = "throws" THEN 500 ELSE 200,
                IF chan = "throws" THEN Msg("publish error") ELSE Msg("Book deleted"),
                Remove(st, id.n), nid,
                <<StoreCall("findByIdAndDelete", TRUE)>>
                \o Publish(chan, ROUTING_KEYS.BOOK_UPDATED,
                           [bookId |-> id.n, deleted |-> TRUE]))

\* router.delete('/:id')
DeleteBook(id, chan, failAt, st, nid) ==
    IF ~isValid(id)
    THEN Result(400, Msg("Invalid book ID format"), st, nid, <<>>)
    ELSE IF failAt = 1
    THEN Result(500, Msg("store error"), st, nid,
                <<StoreCall("findByIdAndDelete", FALSE)>>)
    ELSE IF FindById(st, id) = Null
    THEN Result(404, Msg("Book not found"), st, nid,
                <<StoreCall("findByIdAndDelete", TRUE)>>)
    ELSE Result(200, Msg("Book deleted"), Remove(st, id.n), nid,
                <<StoreCall("findByIdAndDelete", TRUE)>>
                \o Publish(chan, ROUTING_KEYS.BOOK_UPDATED,
                           [bookId |-> id.n, deleted |-> TRUE]))

\* Faulty variant: the publish is not in a try of its own, so that its throw
\* reaches the handler's catch after the save.
PatchStockPublishUncaught(id, body, chan, failAt, st, nid) ==
    IF ~isValid(id)
    THEN Result(400, Msg("Invalid book ID format"), st, nid, <<>>)
    ELSE IF body.stock = Undef \/ NotNonNegative(body.stock)
    THEN Result(400, Msg("Stock must be a valid non-negative number"), st, nid, <<>>)
    ELSE IF failAt = 1
    THEN Result(400, Msg("store error"), st, nid, <<StoreCall("findById", FALSE)>>)
    ELSE IF FindById(st, id) = Null
    THEN Result(404, Msg("Book not found"), st, nid, <<StoreCall("findById", TRUE)>>)
    ELSE LET updatedBook == [FindById(st, id) EXCEPT !.stock = ToNumber(body.stock)]
         IN IF failAt = 2
            THEN Result(400, Msg("store error"), st, nid,
                        <<StoreCall("findById", TRUE), StoreCall("save", FALSE)>>)
            ELSE Result(IF chan = "throws" THEN 400 ELSE 200,
                        IF chan = "throws" THEN Msg("publish error") ELSE updatedBook,
                        Save(st, updatedBook), nid,
                        <<StoreCall("findById", TRUE), StoreCall("save", TRUE)>>
                        \o Publish(chan, ROUTING_KEYS.STOCK_UPDATED,
                                   [bookId |-> id.n, stock |-> ToNumber(body.stock)]))

\* router.patch('/:id/stock')
PatchStock(id, body, chan, failAt, st, nid) ==
    IF ~isValid(id)
    THEN Result(400, Msg("Invalid book ID format"), st, nid, <<>>)
    ELSE IF body.stock = Undef \/ NotNonNegative(body.stock)
    THEN Result(400, Msg("Stock must be a valid non-negative number"), st, nid, <<>>)
    ELSE IF failAt = 1
    THEN Result(400, Msg("store error"), st, nid, <<StoreCall("findById", FALSE)>>)
    ELSE IF FindById(st, id) = Null
    THEN Result(404, Msg("Book not found"), st, nid, <<StoreCall("findById", TRUE)>>)
    ELSE LET updatedBook == [FindById(st, id) EXCEPT !.stock = ToNumber(body.stock)]
         IN IF failAt = 2
            THEN Result(400, Msg("store error"), st, nid,
                        <<StoreCall("findById", TRUE), StoreCall("save", FALSE)>>)
            ELSE Result(200, updatedBook, Save(st, updatedBook), nid,
                        <<StoreCall("findById", TRUE), StoreCall("save", TRUE)>>
                        \o Publish(chan, ROUTING_KEYS.STOCK_UPDATED,
                                   [bookId |-> id.n, stock |-> ToNumber(body.stock)]))

\* ------------------------------------------------- handlers, await by await
\* A PUT or PATCH handler runs up to its "await Book.findById", is suspended,
\* and resumes at its "await book.save()"; other requests run in between.
Clients == {1, 2}

NoRequest ==
    [op |-> "none", id |-> [len |-> 0, hex |-> FALSE, n |-> 0], chan |-> "absent",
     body |-> Undef, pc |-> "none", book |-> Null, status |-> 0, resp |-> Msg(""),
     trace |-> <<>>, raced |-> FALSE]

NoneInFlight == [c \in Clients |-> NoRequest]

\* The request has its response.
Answered(req, status, resp, trace) ==
    [req EXCEPT !.pc = "answered", !.status = status, !.resp = resp,
                !.trace = req.trace \o trace
                          \o <<[op |-> "respond", status |-> status]>>]

\* The request waits for its save, holding the document it fetched.
Fetched(req, book) ==
    [req EXCEPT !.pc = "fetched", !.book = book,
                !.trace = <<StoreCall("findById", TRUE)>>]

\* router.put('/:id') up to the resolution of findById
PutFetch(req, st) ==
    IF ~isValid(req.id)
    THEN Answered(req, 400, Msg("Invalid book ID format"), <<>>)
    ELSE Fetched(req, FindById(st, req.id))

\* router.put('/:id') from the resolution of findById to the response
PutSave(req, st) ==
    IF req.book = Null
    THEN [req |-> Answered(req, 404, Msg("Book not found"), <<>>), store |-> st]
    ELSE IF req.body.price # Undef /\ NotNonNegative(req.body.price)
    THEN [req |-> Answered(req, 400,
                           Msg("Price must be a valid non-negative number"), <<>>),
          store |-> st]
    ELSE IF req.body.stock # Undef /\ NotNonNegative(req.body.stock)
    THEN [req |-> Answered(req, 400,
                           Msg("Stock must be a valid non-negative number"), <<>>),
          store |-> st]
    ELSE IF SaveDocument(st, req.book, Assign(req.book, WithNumbers(req.body))).ok
    THEN [req |-> Answered(req, 200, Assign(req.book, WithNumbers(req.body)),
                           <<StoreCall("save", TRUE)>>
                           \o Publish(req.chan, ROUTING_KEYS.BOOK_UPDATED,
                                      Assign(req.book, WithNumbers(req.body)))),
          store |-> SaveDocument(st, req.book,
                                 Assign(req.book, WithNumbers(req.body))).store]
    ELSE [req |-> Answered(req, 400, Msg("store error"), <<StoreCall("save", FALSE)>>),
          store |-> st]

\* router.patch('/:id/stock') up to the resolution of findById
PatchFetch(req, st) ==
    IF ~isValid(req.id)
    THEN Answered(req, 400, Msg("Invalid book ID format"), <<>>)
    ELSE IF req.body.stock = Undef \/ NotNonNegative(req.body.stock)
    THEN Answered(req, 400, Msg("Stock must be a valid non-negative number"), <<>>)
    ELSE Fetched(req, FindById(st, req.id))

\* router.patch('/:id/stock') from the resolution of findById to the response
PatchSave(req, st) ==
    IF req.book = Null
    THEN [req |-> Answered(req, 404, Msg("Book not found"), <<>>), store |-> st]
    ELSE IF SaveDocument(st, req.book,
                         [req.book EXCEPT !.stock = ToNumber(req.body.stock)]).ok
    THEN [req |-> Answered(req, 200,
                           [req.book EXCEPT !.stock = ToNumber(req.body.stock)],
                           <<StoreCall("save", TRUE)>>
                           \o Publish(req.chan, ROUTING_KEYS.STOCK_UPDATED,
                                      [bookId |-> req.id.n,
                                       stock |-> ToNumber(req.body.stock)])),
          store |-> SaveDocument(st, req.book,
                                 [req.book EXCEPT
                                     !.stock = ToNumber(req.body.stock)]).store]
    ELSE [req |-> Answered(req, 400, Msg("store error"), <<StoreCall("save", FALSE)>>),
          store |-> st]


\* ---------------------------------------------------------------- frontend
\* The books slice of the store (store/slices/bookSlice) and the BookList
\* page. A book of a payload is written by its identifier alone.
initialState ==
    [books |-> <<>>, selectedBook |-> Null, loading |-> FALSE, error |-> Null,
     searchResults |-> <<>>]

\* rejectWithValue(error.response?.data?.message || fallback)
RejectValue(message, fallback) == IF Falsy(message) THEN Str(<<fallback>>) ELSE message

fetchBooksPending(state) == [state EXCEPT !.loading = TRUE, !.error = Null]
fetchBooksFulfilled(state, payload) ==
    [state EXCEPT !.loading = FALSE, !.books = payload]
fetchBooksRejected(state, payload) ==
    [state EXCEPT !.loading = FALSE,
                  !.error = IF Falsy(payload) THEN Str(<<"Failed to fetch books">>)
                            ELSE payload]

fetchBookByIdPending(state) == [state EXCEPT !.loading = TRUE, !.error = Null]
fetchBookByIdFulfilled(state, payload) ==
    [state EXCEPT !.loading = FALSE, !.selectedBook = payload]
fetchBookByIdRejected(state, payload) ==
    [state EXCEPT !.loading = FALSE,
                  !.error = IF Falsy(payload)
                            THEN Str(<<"Failed to fetch book details">>)
                            ELSE payload]

searchBooksPending(state) == [state EXCEPT !.loading = TRUE, !.error = Null]
searchBooksFulfilled(state, payload) ==
    [state EXCEPT !.loading = FALSE, !.searchResults = payload]
searchBooksRejected(state, payload) ==
    [state EXCEPT !.loading = FALSE,
                  !.error = IF Falsy(payload) THEN Str(<<"Search failed">>)
                            ELSE payload]

\* The reducer of a thunk's pending action.
PendingReducer(thunk, state) ==
    CASE thunk = "fetchBooks" -> fetchBooksPending(state)
      [] thunk = "fetchBookById" -> fetchBookByIdPending(state)
      [] OTHER -> searchBooksPending(state)

\* The frontend before the page is mounted. pending: the requests not yet
\* settled; failed: the search settled last was rejected and no search was
\* submitted since (history).
NotLoaded ==
    [slice |-> initialState, isSearching |-> FALSE, searchQuery |-> Str(<<>>),
     mounted |-> FALSE, pending |-> <<>>, failed |-> FALSE]

\* dispatch(thunk(arg)): the pending action is reduced, the request goes out.
Dispatch(u, thunk, arg) ==
    [u EXCEPT !.slice = PendingReducer(thunk, u.slice),
              !.pending = Append(u.pending, [thunk |-> thunk, arg |-> arg])]

\* The i-th pending request settles.
Settle(u, i) ==
    [u EXCEPT !.pending = [k \in 1..(Len(u.pending) - 1) |->
                             IF k < i THEN u.pending[k] ELSE u.pending[k + 1]]]

\* BookList.handleSearch(value), to its return
handleSearch(u, value) ==
    IF ~Falsy(value)
    THEN Dispatch([u EXCEPT !.searchQuery = value, !.isSearching = TRUE,
                            !.failed = FALSE],
                  "searchBooks", value)
    ELSE Dispatch([u EXCEPT !.searchQuery = value, !.isSearching = FALSE,
                            !.failed = FALSE],
                  "fetchBooks", Undef)

\* searchBooks fulfilled, then the page's .then callback
searchSucceeded(u, i, payload) ==
    [Settle(u, i) EXCEPT !.slice = searchBooksFulfilled(u.slice, payload),
                         !.isSearching = FALSE, !.failed = FALSE]

\* searchBooks rejected, then the page's .catch callback
searchFailed(u, i, payload) ==
    Dispatch([Settle(u, i) EXCEPT !.slice = searchBooksRejected(u.slice, payload),
                                  !.isSearching = FALSE, !.failed = TRUE],
             "fetchBooks", Undef)

\* The list the page renders.
displayBooks(u) ==
    IF ~Falsy(u.searchQuery) /\ Len(u.slice.searchResults) > 0
    THEN u.slice.searchResults
    ELSE u.slice.books


\* ------------------------------------------------------------------- state
VARIABLES
    store,    \* the Book collection
    nextId,   \* the next identifier a new document gets
    deleted,  \* identifiers removed by a delete so far (history)
    last,     \* the request served last, with its response and trace
    inflight, \* per client, the update request suspended at an await
    ui        \* the frontend: the books slice, the BookList page, its requests

vars == <<store, nextId, deleted, last, inflight, ui>>

\* ------------------------------------------------------------------ inputs
Channels == {"absent", "ok", "throws"}

\* The messaging situation and the store fault of one request whose handler
\* makes up to k store calls. A request whose store call throws never
\* reaches the channel, so the channel is varied only without a fault.
Situations(k) ==
    {[chan |-> c, failAt |-> 0] : c \in Channels}
    \cup {[chan |-> "ok", failAt |-> f] : f \in 1..k}

NoId == [len |-> 0, hex |-> FALSE, n |-> 0]
WellFormedIds == {[len |-> 24, hex |-> TRUE, n |-> k] : k \in 1..(MaxBooks + 1)}
MalformedIds == {[len |-> 24, hex |-> FALSE, n |-> 1], [len |-> 5, hex |-> TRUE, n |-> 1]}
IdParams == WellFormedIds \cup MalformedIds

EmptyBody ==
    [title |-> Undef, author |-> Undef, description |-> Undef, category |-> Undef,
     price |-> Undef, stock |-> Undef]

PriceValues ==
    {Num(999), Num(0 - 100), Str(<<"9", ".", "9", "9">>), Str(<<"-", "1">>),
     Str(<<"a">>), Str(<<>>), Null}
StockValues ==
    {Num(500), Num(250), Num(0 - 100), Str(<<"5">>), Str(<<"x">>), Str(<<>>)}

BookA ==
    [EmptyBody EXCEPT !.title = Str(<<"A", "b">>), !.author = Str(<<"C">>),
                      !.description = Str(<<"a">>), !.category = Str(<<"c">>),
                      !.price = Num(999)]
PostBodies ==
    {BookA, [BookA EXCEPT !.title = Undef], [BookA EXCEPT !.title = Str(<<>>)],
     [BookA EXCEPT !.price = Undef], [BookA EXCEPT !.category = Undef]}
    \cup {[BookA EXCEPT !.price = p] : p \in PriceValues}
    \cup {[BookA EXCEPT !.stock = s] : s \in StockValues}
    \cup {[BookA EXCEPT !.price = Str(<<"a">>), !.stock = Num(500)],
          [BookA EXCEPT !.price = Str(<<"9", ".", "9", "9">>), !.stock = Str(<<"5">>)]}

PutBodies ==
    {EmptyBody, [BookA EXCEPT !.stock = Num(500)]}
    \cup {[EmptyBody EXCEPT !.price = p] : p \in PriceValues}
    \cup {[EmptyBody EXCEPT !.stock = s] : s \in StockValues}
    \cup {[EmptyBody EXCEPT !.price = Num(0 - 100), !.stock = Num(500)],
          [EmptyBody EXCEPT !.price = Str(<<>>), !.stock = Num(250)]}

PatchBodies == {EmptyBody} \cup {[EmptyBody EXCEPT !.stock = s] : s \in StockValues}

Queries ==
    {Undef, Str(<<>>), Str(<<"a">>), Str(<<"B">>), Str(<<"a", "b">>), Str(<<"b", "a">>),
     Str(<<".">>), Str(<<"a", ".">>), Str(<<"(">>)}

\* ----------------------------------------------------------------- actions
\* No request is being served.
Idle ==
    [op |-> "none", id |-> NoId, body |-> EmptyBody, q |-> Undef, chan |-> "absent",
     failAt |-> 0, status |-> 0, resp |-> Msg(""), trace |-> <<>>]

Init ==
    /\ store = <<>>
    /\ nextId = 1
    /\ deleted = {}
    /\ last = Idle
    /\ inflight = NoneInFlight
    /\ ui = NotLoaded

\* The router: the handler of the request's method and path.
Handle(op, id, body, q, chan, failAt, st, nid) ==
    CASE op = "list" -> GetBooks(failAt, st, nid)
      [] op = "search" -> SearchBooks(q, failAt, st, nid)
      [] op = "get" -> GetBook(id, failAt, st, nid)
      [] op = "create" -> PostBook(body, chan, failAt, st, nid)
      [] op = "update" -> PutBook(id, body, chan, failAt, st, nid)
      [] op = "delete" -> DeleteBook(id, chan, failAt, st, nid)
      [] OTHER -> PatchStock(id, body, chan, failAt, st, nid)

\* The handler's result becomes the state.
Respond(op, id, body, q, sit, r) ==
    /\ r.nextId <= MaxBooks + 1
    /\ store' = r.store
    /\ nextId' = r.nextId
    /\ deleted' = IF op = "delete" /\ r.status = 200
                  THEN deleted \cup {id.n} ELSE deleted
    /\ last' = [op |-> op, id |-> id, body |-> body, q |-> q, chan |-> sit.chan,
                failAt |-> sit.failAt, status |-> r.status, resp |-> r.body,
                trace |-> r.trace]
    /\ UNCHANGED <<inflight, ui>>

\* The request is served. A request is taken when none is being served.
Serve(op, id, body, q, sit) ==
    Respond(op, id, body, q, sit,
            Handle(op, id, body, q, sit.chan, sit.failAt, store, nextId))

NoChannel(f) == [chan |-> "absent", failAt |-> f]

GetBooksRequest ==
    /\ last = Idle
    /\ \E f \in 0..1 : Serve("list", NoId, EmptyBody, Undef, NoChannel(f))

SearchBooksRequest ==
    /\ last = Idle
    /\ \E q \in Queries, f \in 0..1 : Serve("search", NoId, EmptyBody, q, NoChannel(f))

GetBookRequest ==
    /\ last = Idle
    /\ \E id \in IdParams, f \in 0..1 : Serve("get", id, EmptyBody, Undef, NoChannel(f))

PostBookRequest ==
    /\ last = Idle
    /\ \E body \in PostBodies, sit \in Situations(1) :
          Serve("create", NoId, body, Undef, sit)

PutBookRequest ==
    /\ last = Idle
    /\ \E id \in IdParams, body \in PutBodies, sit \in Situations(2) :
          Serve("update", id, body, Undef, sit)

DeleteBookRequest ==
    /\ last = Idle
    /\ \E id \in IdParams, sit \in Situations(1) :
          Serve("delete", id, EmptyBody, Undef, sit)

PatchStockRequest ==
    /\ last = Idle
    /\ \E id \in IdParams, body \in PatchBodies, sit \in Situations(2) :
          Serve("patch", id, body, Undef, sit)

\* The response has gone out; the request and response objects are dropped and
\* the connection takes its next request.
Finish ==
    /\ last # Idle
    /\ last' = Idle
    /\ UNCHANGED <<store, nextId, deleted, inflight, ui>>

Next ==
    \/ Finish
    \/ GetBooksRequest
    \/ SearchBooksRequest
    \/ GetBookRequest
    \/ PostBookRequest
    \/ PutBookRequest
    \/ DeleteBookRequest
    \/ PatchStockRequest

Spec == Init /\ [][Next]_vars

\* ------------------------------------------------------ concurrent updates
\* Two clients send PUT, PATCH and DELETE requests for a book that is stored;
\* the event loop runs one handler segment at a time, in any order.
RaceIds ==
    {[len |-> 24, hex |-> TRUE, n |-> 1], [len |-> 24, hex |-> TRUE, n |-> 2],
     [len |-> 5, hex |-> TRUE, n |-> 1]}
RacePutBodies ==
    {[EmptyBody EXCEPT !.stock = Num(500)],
     [EmptyBody EXCEPT !.title = Str(<<"B">>), !.stock = Num(0)],
     [EmptyBody EXCEPT !.price = Num(0 - 100)]}
RacePatchBodies ==
    {[EmptyBody EXCEPT !.stock = Num(500)], [EmptyBody EXCEPT !.stock = Num(250)],
     [EmptyBody EXCEPT !.stock = Str(<<"x">>)]}

NewRequest(op, id, body, chan) ==
    [NoRequest EXCEPT !.op = op, !.id = id, !.body = body, !.chan = chan]

InitRace ==
    /\ store = Save(<<>>, NewBook(WithNumbers(BookA), 1))
    /\ nextId = 2
    /\ deleted = {}
    /\ last = Idle
    /\ inflight = NoneInFlight
    /\ ui = NotLoaded

\* The handler of client c starts and runs to its first await.
Begin(c, req) ==
    /\ inflight' = [inflight EXCEPT ![c] = req]
    /\ UNCHANGED <<store, nextId, deleted, last, ui>>

\* The handler of client c resumes after findById and runs to its response.
\* raced: another request for the same book had fetched and not yet saved.
Resume(c, r) ==
    /\ inflight' = [inflight EXCEPT ![c] =
                      [r.req EXCEPT !.raced =
                          \E d \in Clients \ {c} :
                             /\ inflight[d].pc = "fetched"
                             /\ inflight[d].id = inflight[c].id]]
    /\ store' = r.store
    /\ UNCHANGED <<nextId, deleted, last, ui>>

\* A delete has one store call; its handler runs in one piece.
Delete(c, id, chan, r) ==
    /\ inflight' = [inflight EXCEPT ![c] =
                      [NewRequest("delete", id, Undef, chan) EXCEPT
                          !.pc = "answered", !.status = r.status, !.resp = r.body,
                          !.trace = r.trace]]
    /\ store' = r.store
    /\ deleted' = IF r.status = 200 THEN deleted \cup {id.n} ELSE deleted
    /\ UNCHANGED <<nextId, last, ui>>

PutBegins ==
    \E c \in Clients :
       /\ inflight[c] = NoRequest
       /\ \E id \in RaceIds, body \in RacePutBodies, chan \in Channels :
             Begin(c, PutFetch(NewRequest("update", id, body, chan), store))

PutResumes ==
    \E c \in Clients :
       /\ inflight[c].pc = "fetched"
       /\ inflight[c].op = "update"
       /\ Resume(c, PutSave(inflight[c], store))

PatchBegins ==
    \E c \in Clients :
       /\ inflight[c] = NoRequest
       /\ \E id \in RaceIds, body \in RacePatchBodies, chan \in Channels :
             Begin(c, PatchFetch(NewRequest("patch", id, body, chan), store))

PatchResumes ==
    \E c \in Clients :
       /\ inflight[c].pc = "fetched"
       /\ inflight[c].op = "patch"
       /\ Resume(c, PatchSave(inflight[c], store))

DeleteRuns ==
    \E c \in Clients :
       /\ inflight[c] = NoRequest
       /\ \E id \in RaceIds :
             Delete(c, id, "ok", DeleteBook(id, "ok", 0, store, nextId))

\* The response has gone out; the client may send its next request.
Leaves ==
    \E c \in Clients :
       /\ inflight[c].pc = "answered"
       /\ inflight' = [inflight EXCEPT ![c] = NoRequest]
       /\ UNCHANGED <<store, nextId, deleted, last, ui>>

NextRace ==
    \/ PutBegins
    \/ PutResumes
    \/ PatchBegins
    \/ PatchResumes
    \/ DeleteRuns
    \/ Leaves

SpecRace == InitRace /\ [][NextRace]_vars

\* ------------------------------------------------------- the page at work
\* What the books service answers: lists of books, a book, or a failure with
\* or without a message in its body.
BookLists == {<<>>, <<[_id |-> 1], [_id |-> 2]>>}
SearchLists == {<<>>, <<[_id |-> 1]>>}
ErrorMessages == {Undef, Str(<<"Server error">>)}
SearchValues == {Str(<<>>), Str(<<"a">>), Str(<<"z">>)}

InitUI ==
    /\ store = <<>>
    /\ nextId = 1
    /\ deleted = {}
    /\ last = Idle
    /\ inflight = NoneInFlight
    /\ ui = NotLoaded

\* The frontend takes a step; the service side is not looked at.
Becomes(u) ==
    /\ ui' = u
    /\ UNCHANGED <<store, nextId, deleted, last, inflight>>

\* useEffect(() => dispatch(fetchBooks()), [dispatch])
Mount ==
    /\ ~ui.mounted
    /\ Becomes(Dispatch([ui EXCEPT !.mounted = TRUE], "fetchBooks", Undef))

\* The user submits the search box.
Search ==
    /\ ui.mounted
    /\ Len(ui.pending) < MaxPending
    /\ \E value \in SearchValues : Becomes(handleSearch(ui, value))

\* A book's details are requested (dispatch(fetchBookById(id))).
ViewBook ==
    /\ Len(ui.pending) < MaxPending
    /\ Becomes(Dispatch(ui, "fetchBookById", 1))

FetchBooksFulfilled ==
    \E i \in 1..Len(ui.pending) :
       /\ ui.pending[i].thunk = "fetchBooks"
       /\ \E payload \in BookLists :
             Becomes([Settle(ui, i) EXCEPT
                         !.slice = fetchBooksFulfilled(ui.slice, payload)])

FetchBooksRejected ==
    \E i \in 1..Len(ui.pending) :
       /\ ui.pending[i].thunk = "fetchBooks"
       /\ \E m \in ErrorMessages :
             Becomes([Settle(ui, i) EXCEPT
                         !.slice = fetchBooksRejected(
                                      ui.slice, RejectValue(m, "Failed to fetch books"))])

FetchBookByIdFulfilled ==
    \E i \in 1..Len(ui.pending) :
       /\ ui.pending[i].thunk = "fetchBookById"
       /\ Becomes([Settle(ui, i) EXCEPT
                      !.slice = fetchBookByIdFulfilled(
                                   ui.slice, [_id |-> ui.pending[i].arg])])

FetchBookByIdRejected ==
    \E i \in 1..Len(ui.pending) :
       /\ ui.pending[i].thunk = "fetchBookById"
       /\ \E m \in ErrorMessages :
             Becomes([Settle(ui, i) EXCEPT
                         !.slice = fetchBookByIdRejected(
                                      ui.slice,
                                      RejectValue(m, "Failed to fetch book details"))])

SearchBooksFulfilled ==
    \E i \in 1..Len(ui.pending) :
       /\ ui.pending[i].thunk = "searchBooks"
       /\ \E payload \in SearchLists : Becomes(searchSucceeded(ui, i, payload))

SearchBooksRejected ==
    \E i \in 1..Len(ui.pending) :
       /\ ui.pending[i].thunk = "searchBooks"
       /\ \E m \in ErrorMessages :
             Becomes(searchFailed(ui, i, RejectValue(m, "Search failed")))

NextUI ==
    \/ Mount
    \/ Search
    \/ ViewBook
    \/ FetchBooksFulfilled
    \/ FetchBooksRejected
    \/ FetchBookByIdFulfilled
    \/ FetchBookByIdRejected
    \/ SearchBooksFulfilled
    \/ SearchBooksRejected

SpecUI == InitUI /\ [][NextUI]_vars

\* ------------------------------------------------------- claim vocabulary
\* The decimal numerals among the submitted strings, with their values.
Numerals ==
    {<<Str(<<"9", ".", "9", "9">>), 999>>, <<Str(<<"5">>), 500>>,
     <<Str(<<"-", "1">>), 0 - 100>>}

\* A submitted value is numeric when it is a number or a string that spells
\* one; its numeric value is then that number.
Numeric(x) == x.t = "num" \/ \E p \in Numerals : p[1] = x
NumericValue(x) == IF x.t = "num" THEN x.v ELSE (CHOOSE p \in Numerals : p[1] = x)[2]
NegativeOrNonNumeric(x) == ~Numeric(x) \/ NumericValue(x) < 0

Malformed(id) == id.len # 24 \/ ~id.hex

StoreOps == {"find", "findById", "save", "findByIdAndDelete"}
StoreCalls(tr) == {i \in 1..Len(tr) : tr[i].op \in StoreOps}
Publishes(tr) == {i \in 1..Len(tr) : tr[i].op = "publish"}
\* A save, or a findByIdAndDelete, was issued.
WriteCalls(tr) == {i \in 1..Len(tr) : tr[i].op \in {"save", "findByIdAndDelete"}}

\* C1 (as claimed): a create, or an update of a stored book, whose price is
\* negative or non-numeric is answered 400 and issues no write to the store.
C1_BadPriceRejected ==
    (/\ last.op \in {"create", "update"}
     /\ last.body.price # Undef
     /\ NegativeOrNonNumeric(last.body.price)
     /\ last.op = "update" => ~Malformed(last.id) /\ last.id.n \in DOMAIN store)
    => last.status = 400 /\ WriteCalls(last.trace) = {}

\* C2: a get, update, delete or patch-stock request with a malformed
\* identifier is answered 400 and issues no store call, whatever its body.
C2_MalformedIdNeverReachesStore ==
    (last.op \in {"get", "update", "delete", "patch"} /\ Malformed(last.id))
    => last.status = 400 /\ StoreCalls(last.trace) = {}

C2_Witness ==
    /\ last.op = "update"
    /\ Malformed(last.id)
    /\ last.body.price = Num(999)
    /\ last.status = 400
    /\ DOMAIN store # {}

Mutations == {"create", "update", "delete", "patch"}
Success == {200, 201}

\* The step serves a request.
Serving == last = Idle /\ last' # Idle

\* The write of the request served by this step succeeded: a save resolved,
\* or the store changed.
WriteSucceeded ==
    \/ \E i \in 1..Len(last'.trace) : last'.trace[i].op = "save" /\ last'.trace[i].ok
    \/ store' # store

\* C3: a mutation whose store write succeeds answers success, and its
\* status, its response body and the store it leaves are those the same
\* request gets in each messaging situation: channel absent, publish
\* succeeds, publish throws.
C3_MessagingDoesNotChangeOutcome ==
    [][(Serving /\ last'.op \in Mutations /\ WriteSucceeded)
       => /\ last'.status \in Success
          /\ \A c \in Channels :
                LET r == Handle(last'.op, last'.id, last'.body, last'.q, c,
                                last'.failAt, store, nextId)
                IN /\ r.status = last'.status
                   /\ r.body = last'.resp
                   /\ r.store = store']_vars

C3_Witness ==
    /\ last.op = "patch"
    /\ last.status = 200
    /\ \E i \in Publishes(last.trace) : ~last.trace[i].ok
    /\ store[last.id.n].stock = Num(500)

WellFormedId(n) == [len |-> 24, hex |-> TRUE, n |-> n]

C5_StoreErrorIs500 ==
    (\E i \in StoreCalls(last.trace) : ~last.trace[i].ok) => last.status = 500

\* C6: every stored book has a price and a stock that are numbers >= 0.
C6_NonNegative ==
    \A i \in DOMAIN store :
        /\ store[i].price.t = "num" /\ store[i].price.v >= 0
        /\ store[i].stock.t = "num" /\ store[i].stock.v >= 0

C6_Witness ==
    /\ last.op = "update"
    /\ last.status = 400
    /\ last.id.n \in DOMAIN store
    /\ ~Malformed(last.id)
    /\ last.body.price = Num(0 - 100)
    /\ deleted # {}

\* C7 (as claimed): the stock of every stored book is a non-negative
\* integer.
C7_StockIsInteger ==
    \A i \in DOMAIN store :
        /\ store[i].stock.t = "num"
        /\ store[i].stock.v >= 0
        /\ store[i].stock.v % 100 = 0

\* C8: the book a create answers with 201 is the stored one, its price and
\* stock are numbers, and each equals the numeric value of the submitted
\* field when that was a number or a numeric string; the book a patch-stock
\* answers with 200 likewise for its stock.
C8_StoredAsNumbers ==
    /\ (last.op = "create" /\ last.status = 201)
       => /\ last.resp._id \in DOMAIN store
          /\ store[last.resp._id] = last.resp
          /\ last.resp.price.t = "num"
          /\ last.resp.stock.t = "num"
          /\ Numeric(last.body.price)
             => last.resp.price = Num(NumericValue(last.body.price))
          /\ Numeric(last.body.stock)
             => last.resp.stock = Num(NumericValue(last.body.stock))
    /\ (last.op = "patch" /\ last.status = 200)
       => /\ store[last.id.n] = last.resp
          /\ last.resp.stock.t = "num"
          /\ Numeric(last.body.stock)
             => last.resp.stock = Num(NumericValue(last.body.stock))

C8_Witness ==
    /\ last.op = "create"
    /\ last.status = 201
    /\ last.body.price = Str(<<"9", ".", "9", "9">>)
    /\ last.body.stock = Str(<<"5">>)
    /\ last.resp.price = Num(999)
    /\ last.resp.stock = Num(500)

\* p occurs in s as a substring, letter case ignored.
Contains(s, p) ==
    \E i \in 1..(Len(s) - Len(p) + 1) :
        \A j \in 1..Len(p) : Lower(s[i + j - 1]) = Lower(p[j])

ContainsInSomeField(b, p) ==
    \/ Contains(b.title, p)
    \/ Contains(b.author, p)
    \/ Contains(b.description, p)
    \/ Contains(b.category, p)

\* C9 (as claimed): a search without a query is answered 400 without a store
\* call; a search with one, the store working, is answered with exactly the
\* stored books that contain the query in their title, author, description
\* or category, each once.
C9_SearchIsSubstringUnion ==
    last.op = "search"
    => IF last.q = Undef \/ last.q = Str(<<>>)
       THEN last.status = 400 /\ StoreCalls(last.trace) = {}
       ELSE last.failAt = 0
            => /\ last.status = 200
               /\ {last.resp[i] : i \in 1..Len(last.resp)}
                  = {store[k] : k \in {n \in DOMAIN store :
                                          ContainsInSomeField(store[n], last.q.s)}}
               /\ \A i, j \in 1..Len(last.resp) : last.resp[i] = last.resp[j] => i = j

\* The routing key each mutation publishes under.
KeyOf(op) ==
    CASE op = "create" -> "BOOK_CREATED"
      [] op = "update" -> "BOOK_UPDATED"
      [] op = "delete" -> "BOOK_UPDATED"
      [] OTHER -> "STOCK_UPDATED"

\* C10: with the channel present, a mutation answered with success made
\* exactly one publish attempt, after its successful store write and before
\* its response, under its operation's routing key, and a delete published
\* the {bookId, deleted} delta.
C10_OnePublishPerMutation ==
    (last.op \in Mutations /\ last.status \in Success /\ last.chan # "absent")
    => /\ Cardinality(Publishes(last.trace)) = 1
       /\ \A p \in Publishes(last.trace) :
             /\ \E w \in WriteCalls(last.trace) : w < p /\ last.trace[w].ok
             /\ \E r \in (p + 1)..Len(last.trace) : last.trace[r].op = "respond"
             /\ \A r \in 1..p : last.trace[r].op # "respond"
             /\ last.trace[p].key = KeyOf(last.op)
             /\ last.op = "delete"
                => last.trace[p].payload = [bookId |-> last.id.n, deleted |-> TRUE]

C10_Witness ==
    /\ last.op = "delete"
    /\ last.status = 200
    /\ last.chan = "throws"
    /\ \E p \in Publishes(last.trace) : ~last.trace[p].ok
    /\ last.id.n \notin DOMAIN store

\* C11: a request answered 400 or 404 leaves the store as it was, has no
\* resolved save and no publish attempt in its trace; and whatever the
\* answer, a publish attempt comes only after a store write that succeeded.
C11_RejectedHasNoEffect ==
    [][Serving
       => /\ last'.status \in {400, 404}
             => /\ store' = store
                /\ nextId' = nextId
                /\ Publishes(last'.trace) = {}
                /\ \A i \in 1..Len(last'.trace) :
                      ~(last'.trace[i].op = "save" /\ last'.trace[i].ok)
          /\ \A p \in Publishes(last'.trace) :
                \E w \in WriteCalls(last'.trace) : w < p /\ last'.trace[w].ok]_vars

C11_Witness ==
    /\ last.op = "patch"
    /\ last.status = 400
    /\ last.chan = "throws"
    /\ last.failAt = 0
    /\ ~Malformed(last.id)
    /\ last.id.n \in DOMAIN store
    /\ last.body.stock = Num(0 - 100)

\* The request of client c resumes after its fetch in this step.
Resumed(c) == inflight[c].pc = "fetched" /\ inflight'[c].pc = "answered"

\* The paths the request of client c changed on the document it fetched.
Written(req) == {f \in DOMAIN req.book : req.resp[f] # req.book[f]}

\* C12: the save of a PUT or PATCH checks no version: when the book is still
\* stored at the time of the save, the save is never rejected, whatever was
\* written since the fetch, and a request answered 200 has set the paths it
\* changed on the stored book. Two requests that both fetch before either
\* saves are therefore both answered 200, the later save overwriting the
\* earlier one's value (the witness).
C12_SaveChecksNoVersion ==
    [][\A c \in Clients :
          Resumed(c) /\ inflight[c].id.n \in DOMAIN store
          => /\ inflight'[c].resp # Msg("store error")
             /\ inflight'[c].status = 200
                => \A f \in Written(inflight'[c]) :
                      store'[inflight[c].id.n][f] = inflight'[c].resp[f]]_vars

C12_Witness ==
    \E a \in Clients, b \in Clients :
       /\ a # b
       /\ inflight[a].pc = "answered" /\ inflight[b].pc = "answered"
       /\ inflight[a].op \in {"update", "patch"}
       /\ inflight[b].op \in {"update", "patch"}
       /\ inflight[a].status = 200 /\ inflight[b].status = 200
       /\ inflight[a].id = inflight[b].id
       /\ inflight[a].raced
       /\ inflight[a].book = inflight[b].book
       /\ "stock" \in Written(inflight[a])
       /\ inflight[a].id.n \in DOMAIN store
       /\ store[inflight[a].id.n].stock # inflight[a].resp.stock

\* C13: once a search has been rejected, and until the next search is
\* submitted or settles, the page renders the full list of books.
C13_FailedSearchShowsAllBooks ==
    ui.failed => displayBooks(ui) = ui.slice.books

\* C14: loading is true exactly while a request of the slice is pending.
C14_LoadingWhilePending ==
    /\ ui.pending # <<>> => ui.slice.loading
    /\ ui.pending = <<>> => ~ui.slice.loading
====
